---- MODULE Spec2Model ----
(***************************************************************************)
(* Model of bambu_callback.py: one invocation of the script is one Job.    *)
(* Several Jobs (independent operating-system processes) run the same      *)
(* script concurrently over one shared work-directory tree below           *)
(* WORK_BASE_DIR.  Paths are sequences of components relative to           *)
(* WORK_BASE_DIR, so << >> is WORK_BASE_DIR itself.                        *)
(***************************************************************************)
EXTENDS Integers, Sequences, FiniteSets, TLC

\* ------------------------------------------------------------------------
\* Bounds of the model
\* ------------------------------------------------------------------------

\* The wall clock runs from 0 to MaxClock.
MaxClock == 2

\* The concurrently running invocations of the script.
Jobs == {1, 2}

\* Values of the environment variable BAMBU_SLICE_TIMEOUT (clock ticks).
SlicerTimeouts == {2}

\* Values of the environment variable CLEANUP_AGE_SECONDS (clock ticks).
CleanupAges == {0, 1}

\* sys.argv[2] as a path below WORK_BASE_DIR: the empty string, "a", "b"
\* and "a/b".
RequestIds == {<< >>, <<"a">>, <<"b">>, <<"a", "b">>}

\* sys.argv[1]: the extension of the project file and what the file holds.
\*   zip          the file is a readable zip container
\*   slice_info   it has an entry ending in slice_info.config
\*   gcode        it has an entry ending in .gcode with "plate" in its name
\*   usage        what the quoted used_g attribute of the entry holds
StlFile ==
    [ext |-> "stl", zip |-> FALSE, slice_info |-> FALSE, gcode |-> FALSE, usage |-> "none"]

ProjectFiles ==
    { StlFile,
      [ext |-> "3mf", zip |-> FALSE, slice_info |-> FALSE, gcode |-> FALSE, usage |-> "none"],
      [ext |-> "3mf", zip |-> TRUE,  slice_info |-> FALSE, gcode |-> FALSE, usage |-> "none"],
      [ext |-> "3mf", zip |-> TRUE,  slice_info |-> TRUE,  gcode |-> FALSE, usage |-> "number"],
      [ext |-> "3mf", zip |-> TRUE,  slice_info |-> TRUE,  gcode |-> TRUE,  usage |-> "number"],
      [ext |-> "3mf", zip |-> TRUE,  slice_info |-> TRUE,  gcode |-> TRUE,  usage |-> "text"] }

\* The request identifiers of Jobs that run concurrently: the same
\* identifier twice, two unrelated ones, the empty one beside "a", and "a/b"
\* beside "a".
ConcurrentRequestIds == { ids \in [Jobs -> RequestIds] : ids[2] = <<"a">> }

\* The project files of Jobs that run concurrently.
ConcurrentProjectFiles == { StlFile }

\* The request identifier of a Job that starts over what earlier Jobs left.
LeftoverRequestIds == { ids \in [Jobs -> RequestIds] : ids[1] = <<"a">> }

\* ------------------------------------------------------------------------
\* The file system below WORK_BASE_DIR
\* ------------------------------------------------------------------------
\* fs.dirs  maps every existing directory to its last-modified time
\* fs.files maps every existing file to what it holds
\* The script reads the modification time of the immediate children of
\* WORK_BASE_DIR only (cleanup_old_work_dirs); the time of every other
\* directory is kept at 0.

IsPrefix(p, q) == Len(p) <= Len(q) /\ SubSeq(q, 1, Len(p)) = p

Parent(p) == SubSeq(p, 1, Len(p) - 1)

Prefixes(p) == { SubSeq(p, 1, n) : n \in 0..Len(p) }

Exists(f, p) == p \in DOMAIN f.dirs \/ p \in DOMAIN f.files

\* A directory's modification time changes when an entry is added to it or
\* removed from it.
Mtime(d, t) == IF Len(d) = 1 THEN t ELSE 0

TouchDir(dirs, d, t) ==
    [x \in DOMAIN dirs |-> IF x = d THEN Mtime(d, t) ELSE dirs[x]]

\* os.makedirs(p, exist_ok=True)
Makedirs(f, p, t) ==
    LET new == { d \in Prefixes(p) : d \notin DOMAIN f.dirs }
        touched == { Parent(d) : d \in { n \in new : Len(n) > 0 } }
    IN  [f EXCEPT !.dirs =
            [x \in DOMAIN f.dirs \cup new |->
                IF x \in new \/ x \in touched THEN Mtime(x, t) ELSE f.dirs[x]]]

\* open(p, "w") / open(p, "a") followed by a write: fails (the file system is
\* left as it was) when the directory of p does not exist.
CanWrite(f, p) == Parent(p) \in DOMAIN f.dirs /\ p \notin DOMAIN f.dirs

WriteFile(f, p, c, t) ==
    IF ~CanWrite(f, p) THEN f
    ELSE [dirs  |-> IF p \in DOMAIN f.files THEN f.dirs
                    ELSE TouchDir(f.dirs, Parent(p), t),
          files |-> [x \in DOMAIN f.files \cup {p} |->
                        IF x = p THEN c ELSE f.files[x]]]

\* open(p, "a"): what the file holds is kept when it exists.
AppendFile(f, p, c, t) ==
    IF p \in DOMAIN f.files THEN f ELSE WriteFile(f, p, c, t)

\* shutil.rmtree(p, ignore_errors=True) that removes everything
Rmtree(f, p, t) ==
    LET keepd == { d \in DOMAIN f.dirs : ~IsPrefix(p, d) }
        keepf == { x \in DOMAIN f.files : ~IsPrefix(p, x) }
    IN  IF p \notin DOMAIN f.dirs THEN f
        ELSE [dirs  |-> [x \in keepd |->
                            IF Len(p) > 0 /\ x = Parent(p)
                            THEN Mtime(x, t) ELSE f.dirs[x]],
              files |-> [x \in keepf |-> f.files[x]]]

\* The paths that exist in one of f, g and not in the other.
Changed(f, g) ==
    { p \in DOMAIN f.dirs \cup DOMAIN g.dirs :
        ~(p \in DOMAIN f.dirs /\ p \in DOMAIN g.dirs) }
    \cup
    { p \in DOMAIN f.files \cup DOMAIN g.files :
        ~(p \in DOMAIN f.files /\ p \in DOMAIN g.files) }

EmptyFs == [dirs |-> << >>, files |-> << >>]

\* What Jobs that ended without teardown have left below WORK_BASE_DIR: the
\* directories "a" and "b", each with its debug.log, last modified at time 0.
LeftoverFs ==
    [dirs  |-> (<< >> :> 0) @@ (<<"a">> :> 0) @@ (<<"b">> :> 0),
     files |-> (<<"a", "debug.log">> :> [kind |-> "text"])
                @@ (<<"b", "debug.log">> :> [kind |-> "text"])]

\* What a file holds.
TextFile == [kind |-> "text"]

ProfileFile(data) == [kind |-> "profile", data |-> data]

\* An archive the slicer leaves behind: whether it is a readable zip
\* container, what the quoted used_g attribute of its
\* Metadata/slice_info.config holds ("none", "number" or "text"), and whether
\* the third line of its Metadata/plate_1.gcode holds a duration.  The
\* archive with "none" and FALSE lacks both entries.
ArchiveFile(zip, usage, duration) ==
    [kind |-> "archive", zip |-> zip, usage |-> usage, duration |-> duration]

SlicerArchives ==
    { ArchiveFile(TRUE, "number", TRUE), ArchiveFile(TRUE, "text", TRUE),
      ArchiveFile(TRUE, "none", FALSE), ArchiveFile(FALSE, "none", FALSE) }

\* The archives followed when two Jobs run at a time.
ConcurrentArchives == SlicerArchives \ { ArchiveFile(TRUE, "none", FALSE) }

\* ------------------------------------------------------------------------
\* State
\* ------------------------------------------------------------------------
VARIABLES
    now,                    \* time.time()
    fs,                     \* the tree below WORK_BASE_DIR
    pc,                     \* where each Job's main thread stands
    request_id,             \* sys.argv[2]
    project_file,           \* sys.argv[1]
    CLEANUP_AGE_SECONDS,    \* per Job, from its environment
    slicer_timeout_secs,    \* per Job, from its environment
    process_data,           \* the profile dumped to process_modified.json
    actual_process_config,  \* "base" or "modified"
    t0,                     \* start of the slicer process
    process_alive,          \* the flag shared with monitor_output
    used_g_value,           \* "none", "number" or "text"
    exit_status,            \* -1 while the process runs, then 0 or 1
    fatal,                  \* the fatal condition that ended the Job
    trace,                  \* what each Job's process has done, in order
    \* The computations of the script, checked on their own (EstimateSpec):
    INFILL_DENSITY,         \* the environment variable, stripped
    density_value,          \* what is stored as sparse_infill_density
    printing_time_line,     \* the third line of Metadata/plate_1.gcode
    Total_printing_hours,   \* in 3600ths of an hour, -1 before it is computed
    FILAMENT_PRICE,         \* the environment variable, per spool
    total_used_grams,       \* float(used_g_value)
    result_json,            \* << >>, then the one result emitted
    content,                \* the lines of Metadata/slice_info.config
    filament_usage          \* << >>, then used_g_value and used_m_value

\* The variables of the computations.
Estimation == << INFILL_DENSITY, density_value, printing_time_line,
                 Total_printing_hours, FILAMENT_PRICE, total_used_grams,
                 result_json, content, filament_usage >>

vars == << now, fs, pc, request_id, project_file, CLEANUP_AGE_SECONDS,
           slicer_timeout_secs, process_data, actual_process_config, t0,
           process_alive, used_g_value, exit_status, fatal, trace, Estimation >>

\* ------------------------------------------------------------------------
\* Module-level definitions of the script
\* ------------------------------------------------------------------------

ENABLE_SUPPORT == "1"

SUPPORT_TYPE == "tree(auto)"

request_work_dir(j) == request_id[j]

output_directory(j) == request_work_dir(j) \o <<"slice_output">>

debug_log_path(j) == request_work_dir(j) \o <<"debug.log">>

modified_process_path(j) == request_work_dir(j) \o <<"process_modified.json">>

cli_output_path(j) == request_work_dir(j) \o <<"bambu_cli_output.txt">>

cli_error_path(j) == request_work_dir(j) \o <<"bambu_cli_error.txt">>

is_3mf_file(j) == project_file[j].ext = "3mf"

check_3mf_has_slice_data(file) ==
    IF ~file.zip THEN FALSE
    ELSE file.slice_info /\ file.gcode

is_presliced_3mf(j) ==
    IF is_3mf_file(j) THEN check_3mf_has_slice_data(project_file[j]) ELSE FALSE

\* needs_slicing that ignores what the archive holds.
needs_slicing_always(j) == TRUE

needs_slicing(j) == ~is_presliced_3mf(j)

\* The archive that is parsed: the project file itself, or the archive the
\* slicer is told to export into the Job's directory.  Every Job is given a
\* project file of the same name.
output_3mf_path(j) == request_work_dir(j) \o <<"model_output.3mf">>

needs_config_modification(j, wall_loops, infill_density) ==
    needs_slicing(j) /\
        (ENABLE_SUPPORT = "1" \/ wall_loops # "" \/ infill_density # "")

\* log(msg): the line goes to stdout; then the directory of debug.log is
\* created if need be and the line appended, every failure swallowed.
log(f, j, t) ==
    AppendFile(Makedirs(f, request_work_dir(j), t), debug_log_path(j), TextFile, t)

Range(s) == { s[i] : i \in DOMAIN s }

Did(j, e) == e \in Range(trace[j])

\* The position of the first e in trace[j], 0 when there is none.
Pos(j, e) ==
    IF Did(j, e) THEN CHOOSE i \in DOMAIN trace[j] :
                        trace[j][i] = e /\ \A k \in 1..(i - 1) : trace[j][k] # e
    ELSE 0

\* What json.load gives for the base process profile: the keys of interest
\* and their values, "absent" for a key the profile does not have.
ProfileKeys == {"enable_support", "support_type", "support_threshold_angle"}

NoProfile == [k \in ProfileKeys |-> "absent"]

\* The state before any Job has run, given which Jobs there are, the
\* command lines they may be started with and what lies below WORK_BASE_DIR.
InitWith(present, ids, files, tree) ==
    /\ now = 0
    /\ fs = tree
    /\ pc = [j \in Jobs |-> IF j \in present THEN "start" ELSE "absent"]
    /\ request_id \in ids
    /\ project_file \in [Jobs -> files]
    /\ CLEANUP_AGE_SECONDS \in [Jobs -> CleanupAges]
    /\ slicer_timeout_secs \in [Jobs -> SlicerTimeouts]
    /\ \A j \in Jobs \ present :
          /\ request_id[j] = << >>
          /\ project_file[j] = StlFile
          /\ CLEANUP_AGE_SECONDS[j] = 0
    /\ process_data = [j \in Jobs |-> NoProfile]
    /\ actual_process_config = [j \in Jobs |-> "base"]
    /\ t0 = [j \in Jobs |-> 0]
    /\ process_alive = [j \in Jobs |-> FALSE]
    /\ used_g_value = [j \in Jobs |-> "none"]
    /\ exit_status = [j \in Jobs |-> -1]
    /\ fatal = [j \in Jobs |-> "none"]
    /\ trace = [j \in Jobs |-> << >>]

\* Either one Job runs alone, on any project file, or two Jobs run
\* concurrently, or one Job runs alone over what earlier Jobs left.
\* The figures of the estimate are left out of the run of the Jobs.
NoEstimate ==
    /\ INFILL_DENSITY = << >>
    /\ density_value = << >>
    /\ printing_time_line = [present |-> FALSE, label |-> FALSE, tokens |-> << >>]
    /\ Total_printing_hours = -1
    /\ FILAMENT_PRICE = 12
    /\ total_used_grams = 0
    /\ result_json = << >>
    /\ content = << >>
    /\ filament_usage = << >>

Init ==
    /\ \/ InitWith({1}, [Jobs -> RequestIds], ProjectFiles, EmptyFs)
       \/ InitWith(Jobs, ConcurrentRequestIds, ConcurrentProjectFiles, EmptyFs)
       \/ InitWith({1}, LeftoverRequestIds, ConcurrentProjectFiles, LeftoverFs)
    /\ NoEstimate

\* A Job that runs alone meets every failure of its environment; Jobs that
\* run concurrently meet none besides what they do to each other and what
\* the slicer does.
Alone == \E j \in Jobs : pc[j] = "absent"

Outcomes(every, usual) == IF Alone THEN every ELSE {usual}

\* What every step of Job j leaves alone.
Inputs == << request_id, project_file, CLEANUP_AGE_SECONDS, slicer_timeout_secs,
             Estimation >>

\* What stands once the profile is composed.
Config == << process_data, actual_process_config >>

Goto(j, label) == pc' = [pc EXCEPT ![j] = label]

Record(j, events) == trace' = [trace EXCEPT ![j] = @ \o events]

\* ------------------------------------------------------------------------
\* WorkspaceManager
\* ------------------------------------------------------------------------

\* StaleDirs that takes a directory of exactly the age for stale.
StaleDirsInclusive(f, j, t) ==
    { d \in DOMAIN f.dirs : Len(d) = 1 /\ t - f.dirs[d] >= CLEANUP_AGE_SECONDS[j] }

\* The immediate child directories of WORK_BASE_DIR older than the age.
StaleDirs(f, j, t) ==
    { d \in DOMAIN f.dirs : Len(d) = 1 /\ t - f.dirs[d] > CLEANUP_AGE_SECONDS[j] }

RECURSIVE RmtreeAll(_, _, _)
RmtreeAll(f, ds, t) ==
    IF ds = {} THEN f
    ELSE LET d == CHOOSE x \in ds : TRUE
         IN  RmtreeAll(Rmtree(f, d, t), ds \ {d}, t)

\* What becomes of a stale entry of the listing: shutil.rmtree takes it away;
\* os.path.getmtime raises and the entry is passed over ("except Exception:
\* pass"); shutil.rmtree, which ignores errors, leaves it where it is.
EntryFates == {"removed", "getmtime_error", "rmtree_failed"}

AllRemoved(stale) == [d \in stale |-> "removed"]

\* The entries that count as cleaned: "cleaned += 1" follows shutil.rmtree
\* whether or not it removed anything.
Cleaned(stale, fate) == { d \in stale : fate[d] # "getmtime_error" }

\* listed says whether os.listdir returned; when it raises, the outer handler
\* logs "Cleanup error" and the sweep is over.
cleanup_old_work_dirs(f, j, t, listed, fate) ==
    IF << >> \notin DOMAIN f.dirs THEN f
    ELSE IF ~listed THEN log(f, j, t)
    ELSE LET stale == StaleDirs(f, j, t)
             swept == RmtreeAll(f, { d \in stale : fate[d] = "removed" }, t)
         IN  IF Cleaned(stale, fate) # {} THEN log(swept, j, t) ELSE swept

\* What the sweep adds to the trace: "entry_failed" for every entry passed
\* over or left, "cleanup_logged" for the line "Cleanup: removed ...",
\* "cleanup_error_logged" for the line "Cleanup error: ...".
SweepEvents(f, j, t, listed, fate) ==
    IF << >> \notin DOMAIN f.dirs THEN <<"sweep">>
    ELSE IF ~listed THEN <<"sweep", "cleanup_error_logged">>
    ELSE <<"sweep">>
         \o [i \in 1..Cardinality({ d \in DOMAIN fate : fate[d] # "removed" })
                |-> "entry_failed"]
         \o (IF Cleaned(StaleDirs(f, j, t), fate) # {}
             THEN <<"cleanup_logged">> ELSE << >>)

\* The statement that follows the sweep: the working directory is created.
\* SweepNext that runs the sweep again.
SweepNextAgain == "start"

SweepNext == "swept"

\* start_time = time.time(); cleanup_old_work_dirs()
Sweep(j) ==
    /\ pc[j] = "start"
    /\ \E listed \in Outcomes(BOOLEAN, TRUE),
          fate \in Outcomes([StaleDirs(fs, j, now) -> EntryFates],
                            AllRemoved(StaleDirs(fs, j, now))) :
          /\ fs' = cleanup_old_work_dirs(fs, j, now, listed, fate)
          /\ Record(j, SweepEvents(fs, j, now, listed, fate))
    /\ Goto(j, SweepNext)
    /\ UNCHANGED << now, Inputs, Config, t0, process_alive,
                    used_g_value, exit_status, fatal >>

\* os.makedirs(request_work_dir); os.makedirs(output_directory); the START
\* and "Check inputs" log lines.
Prepare(j) ==
    /\ pc[j] = "swept"
    /\ fs' = log(Makedirs(Makedirs(fs, request_work_dir(j), now),
                          output_directory(j), now), j, now)
    /\ Record(j, <<"mkdir">>)
    /\ Goto(j, "prepared")
    /\ UNCHANGED << now, Inputs, Config, t0, process_alive,
                    used_g_value, exit_status, fatal >>

\* ------------------------------------------------------------------------
\* ConfigComposer
\* ------------------------------------------------------------------------

BaseProfiles ==
    { NoProfile, [NoProfile EXCEPT !["enable_support"] = "0"] }

\* Values of the environment variable SUPPORT_THRESHOLD_ANGLE.
ThresholdAngles == {"30"}

\* ForceSupport without the threshold angle.
ForceSupportNoAngle(data, angle) ==
    [data EXCEPT !["enable_support"] = "1", !["support_type"] = SUPPORT_TYPE]

\* process_data after the support overrides.
ForceSupport(data, angle) ==
    IF ENABLE_SUPPORT = "1"
    THEN [data EXCEPT !["enable_support"] = "1",
                      !["support_type"] = SUPPORT_TYPE,
                      !["support_threshold_angle"] = angle]
    ELSE data

\* The "if needs_config_modification:" block.  outcome says how far the try
\* block gets: "read_error" (open or json.load of the base profile raises),
\* "open_error" (the derived profile cannot be opened for writing),
\* "dump_error" (json.dump raises, leaving a partial file) or "ok".  Every
\* branch logs first, so the Job's directory is there for the write.
ComposeOutcomes == {"ok", "read_error", "open_error", "dump_error"}

\* Composed that takes a profile json.dump left partly written for composed.
ComposedDespiteDump(f, j, outcome) ==
    outcome \in {"ok", "dump_error"} /\ CanWrite(f, modified_process_path(j))

Composed(f, j, outcome) ==
    outcome = "ok" /\ CanWrite(f, modified_process_path(j))

ComposeFs(f, j, t, data, outcome) ==
    IF outcome \in {"ok", "dump_error"}
    THEN WriteFile(log(f, j, t), modified_process_path(j),
                   IF outcome = "ok" THEN ProfileFile(data) ELSE [kind |-> "partial"], t)
    ELSE log(f, j, t)

Compose(j) ==
    /\ pc[j] = "prepared"
    /\ IF needs_config_modification(j, "", "")
       THEN \E base \in BaseProfiles, angle \in ThresholdAngles,
               outcome \in Outcomes(ComposeOutcomes, "ok") :
                /\ fs' = ComposeFs(fs, j, now, ForceSupport(base, angle), outcome)
                /\ IF Composed(log(fs, j, now), j, outcome)
                   THEN /\ process_data' =
                              [process_data EXCEPT ![j] = ForceSupport(base, angle)]
                        /\ actual_process_config' =
                              [actual_process_config EXCEPT ![j] = "modified"]
                        /\ Record(j, <<"profile_written">>)
                   ELSE /\ Record(j, <<"compose_failed">>)
                        /\ UNCHANGED << process_data, actual_process_config >>
       ELSE /\ UNCHANGED << fs, process_data, actual_process_config, trace >>
    /\ Goto(j, "composed")
    /\ UNCHANGED << now, Inputs, t0, process_alive, used_g_value, exit_status,
                    fatal >>

\* ------------------------------------------------------------------------
\* SlicerSupervisor
\* ------------------------------------------------------------------------

\* "if not needs_slicing: log(Skipping slicing ...)"
SkipSlicing(j) ==
    /\ pc[j] = "composed"
    /\ ~needs_slicing(j)
    /\ fs' = log(fs, j, now)
    /\ Goto(j, "parse")
    /\ UNCHANGED << now, Inputs, Config, t0, process_alive,
                    used_g_value, exit_status, fatal, trace >>

\* The command line handed to subprocess.Popen: the process profile loaded,
\* the archive exported, the input file and the auto-orient switch.
slice_command(j) ==
    [orient        |-> IF is_3mf_file(j) THEN "0" ELSE "1",
     load_settings |-> actual_process_config[j],
     export_3mf    |-> output_3mf_path(j),
     project_file  |-> project_file[j]]

\* The X11/xvfb and the OpenGL/Mesa validation: whatever subprocess.run
\* does, the outcome is logged.
ProbeOutcomes == {"ok", "nonzero", "not_found", "timeout", "error"}

\* What the two validations add to the trace.
ProbeEvents(xvfb_test, glxinfo_test) ==
    <<"probes">>
    \o (IF xvfb_test # "ok" THEN <<"xvfb_failed">> ELSE << >>)
    \o (IF glxinfo_test # "ok" THEN <<"glxinfo_failed">> ELSE << >>)

\* The statement that follows the two validations.
\* ProbeNext that takes a validation that found no executable for fatal.
ProbeNextGated(xvfb_test, glxinfo_test) ==
    IF "not_found" \in {xvfb_test, glxinfo_test} THEN "cleanup_exit" ELSE "probed"

ProbeNext(xvfb_test, glxinfo_test) == "probed"

Probes(j) ==
    /\ pc[j] = "composed"
    /\ needs_slicing(j)
    /\ \E xvfb_test \in Outcomes(ProbeOutcomes, "ok"),
          glxinfo_test \in Outcomes(ProbeOutcomes, "ok") :
          /\ fs' = log(fs, j, now)
          /\ Record(j, ProbeEvents(xvfb_test, glxinfo_test))
          /\ Goto(j, ProbeNext(xvfb_test, glxinfo_test))
    /\ UNCHANGED << now, Inputs, Config, t0, process_alive,
                    used_g_value, exit_status, fatal >>

\* t0 = time.time(); subprocess.Popen(slice_command, ...); the monitoring
\* thread is started.  Popen may raise: the outer "except Exception".
Launch(j) ==
    /\ pc[j] = "probed"
    /\ fs' = log(fs, j, now)
    /\ \E started \in Outcomes(BOOLEAN, TRUE) :
          IF started
          THEN /\ process_alive' = [process_alive EXCEPT ![j] = TRUE]
               /\ t0' = [t0 EXCEPT ![j] = now]
               /\ Record(j, <<"popen", "launch">>)
               /\ Goto(j, "monitoring")
               /\ UNCHANGED fatal
          ELSE /\ fatal' = [fatal EXCEPT ![j] = "exception"]
               /\ Record(j, <<"popen">>)
               /\ Goto(j, "cleanup_exit")
               /\ UNCHANGED << process_alive, t0 >>
    /\ UNCHANGED << now, Inputs, Config, used_g_value, exit_status >>

\* The slicer process, while it runs, exports the archive.
SlicerWrite(j) ==
    /\ pc[j] = "monitoring"
    /\ output_3mf_path(j) \notin DOMAIN fs.files
    /\ CanWrite(fs, output_3mf_path(j))
    /\ \E archive \in (IF Alone THEN SlicerArchives ELSE ConcurrentArchives) :
          fs' = WriteFile(fs, output_3mf_path(j), archive, now)
    /\ UNCHANGED << now, pc, Inputs, Config, t0, process_alive,
                    used_g_value, exit_status, fatal, trace >>

\* MonitorLog that clears the flag it shares with the main flow.
MonitorLogCancels(j) ==
    /\ pc[j] = "monitoring"
    /\ process_alive[j]
    /\ fs' = log(fs, j, now)
    /\ process_alive' = [process_alive EXCEPT ![j] = FALSE]
    /\ UNCHANGED << now, pc, Inputs, Config, t0,
                    used_g_value, exit_status, fatal, trace >>

\* The observer thread can log: while the main flow waits with the flag set,
\* and, as the thread tests process_alive at the head of its loop only and
\* then sleeps and logs, in an iteration under way when the flag is cleared:
\* a daemon thread, it runs until the process exits.  Two Jobs at a time are
\* followed with an observer that ends with the wait.
ObserverRuns(j) ==
    \/ pc[j] = "monitoring" /\ process_alive[j]
    \/ Alone /\ Did(j, "launch") /\ pc[j] # "done"

\* monitor_output(): a progress line is logged.
MonitorLog(j) ==
    /\ ObserverRuns(j)
    /\ fs' = log(fs, j, now)
    /\ fs' # fs
    /\ UNCHANGED << now, pc, Inputs, Config, t0, process_alive,
                    used_g_value, exit_status, fatal, trace >>

\* Where the main flow goes once the outcome of the slicer is persisted.
\* ReturnNext without the sys.exit(1) of the failure branch.
ReturnNextFallsThrough(rc) == "parse"

ReturnNext(rc) == IF rc = 0 THEN "parse" ELSE "cleanup_exit"

\* process.communicate(timeout=slicer_timeout_secs) returns: the slicer has
\* exited within the timeout with returncode rc.
CommunicateReturns(j) ==
    /\ pc[j] = "monitoring"
    /\ now - t0[j] <= slicer_timeout_secs[j]
    /\ process_alive' = [process_alive EXCEPT ![j] = FALSE]
    /\ t0' = [t0 EXCEPT ![j] = 0]
    /\ \E rc \in {0, 1} :
          IF rc = 0
          THEN /\ fs' = log(WriteFile(log(fs, j, now), cli_output_path(j), TextFile, now),
                            j, now)
               /\ Record(j, <<"persist_output">>)
               /\ Goto(j, ReturnNext(rc))
               /\ UNCHANGED fatal
          ELSE /\ fs' = log(WriteFile(log(fs, j, now), cli_error_path(j), TextFile, now),
                            j, now)
               /\ Record(j, <<"persist_error">>)
               /\ fatal' = [fatal EXCEPT ![j] = "nonzero_exit"]
               /\ Goto(j, ReturnNext(rc))
    /\ UNCHANGED << now, Inputs, Config, used_g_value,
                    exit_status >>

\* TimedOut of a wait that has no timeout.
TimedOutNever(j) == FALSE

\* The wait on the slicer has lasted slicer_timeout_secs.
TimedOut(j) == now - t0[j] >= slicer_timeout_secs[j]

\* process.communicate raises subprocess.TimeoutExpired.
CommunicateTimeout(j) ==
    /\ pc[j] = "monitoring"
    /\ TimedOut(j)
    /\ process_alive' = [process_alive EXCEPT ![j] = FALSE]
    /\ t0' = [t0 EXCEPT ![j] = 0]
    /\ fs' = log(fs, j, now)
    /\ fatal' = [fatal EXCEPT ![j] = "timeout"]
    /\ Record(j, <<"timeout">>)
    /\ Goto(j, "timeout_kill")
    /\ UNCHANGED << now, Inputs, Config, used_g_value,
                    exit_status >>

\* process.communicate raises something else (the output does not decode,
\* say): the outer "except Exception".
CommunicateRaises(j) ==
    /\ pc[j] = "monitoring"
    /\ Alone
    /\ process_alive' = [process_alive EXCEPT ![j] = FALSE]
    /\ t0' = [t0 EXCEPT ![j] = 0]
    /\ fs' = log(fs, j, now)
    /\ fatal' = [fatal EXCEPT ![j] = "exception"]
    /\ Goto(j, "cleanup_exit")
    /\ UNCHANGED << now, Inputs, Config, used_g_value,
                    exit_status, trace >>

\* process.kill() in the timeout handler; when it raises, the drain is
\* skipped ("except Exception: stdout, stderr = '', ''").
\* KillNext that lets a failure of the kill end the process.
KillNextUncaught(killed) == IF killed THEN "timeout_drain" ELSE "done"

KillNext(killed) == IF killed THEN "timeout_drain" ELSE "timeout_persist"

Kill(j) ==
    /\ pc[j] = "timeout_kill"
    /\ \E killed \in Outcomes(BOOLEAN, TRUE) :
          /\ Record(j, IF killed THEN <<"kill">> ELSE <<"kill", "kill_failed">>)
          /\ Goto(j, KillNext(killed))
    /\ UNCHANGED << now, fs, Inputs, Config, t0, process_alive,
                    used_g_value, exit_status, fatal >>

\* process.communicate(timeout=5): returns, times out or raises; the two
\* failures are swallowed.
Drain(j) ==
    /\ pc[j] = "timeout_drain"
    /\ \E drained \in Outcomes({"ok", "timeout", "error"}, "ok") :
          /\ Record(j, IF drained = "ok" THEN <<"drain">>
                        ELSE <<"drain", "drain_failed">>)
          /\ Goto(j, "timeout_persist")
    /\ UNCHANGED << now, fs, Inputs, Config, t0, process_alive,
                    used_g_value, exit_status, fatal >>

\* The partial output and the files created so far are logged, then
\* bambu_cli_error.txt is written (a failure is logged).
PersistTimeout(j) ==
    /\ pc[j] = "timeout_persist"
    /\ fs' = log(WriteFile(log(fs, j, now), cli_error_path(j), TextFile, now), j, now)
    /\ Record(j, <<"persist_error">>)
    /\ Goto(j, "cleanup_exit")
    /\ UNCHANGED << now, Inputs, Config, t0, process_alive,
                    used_g_value, exit_status, fatal >>

\* What a call of cleanup_current_work_dir adds to the trace: "rmtree" when
\* the directory was there and was taken away, "rmtree_failed" when it was
\* there and shutil.rmtree, which ignores errors, left it.
Teardown(f, j, removed) ==
    IF request_work_dir(j) \in DOMAIN f.dirs
    THEN <<"teardown", IF removed THEN "rmtree" ELSE "rmtree_failed">>
    ELSE <<"teardown">>

\* The first half of cleanup_current_work_dir: os.path.exists and
\* shutil.rmtree.
remove_work_dir(f, j, t, removed) ==
    IF removed /\ request_work_dir(j) \in DOMAIN f.dirs
    THEN Rmtree(f, request_work_dir(j), t) ELSE f

\* The second half: the line "Cleaned up work directory" is logged when the
\* directory was there.
TeardownLogged(j) ==
    trace[j] # << >> /\ trace[j][Len(trace[j])] \in {"rmtree", "rmtree_failed"}

teardown_log(f, j, t) == IF TeardownLogged(j) THEN log(f, j, t) ELSE f

\* The removal of the directory failed.
TeardownFailed(j) ==
    trace[j] # << >> /\ trace[j][Len(trace[j])] = "rmtree_failed"

\* The exit status after teardown: what it was before.
\* TeardownStatus that turns a failed removal into a failure of the run.
TeardownStatusEscalated(status, failed) == IF failed THEN 1 ELSE status

TeardownStatus(status, failed) == status

\* Exit that loses the status.
ExitZero(j, status) ==
    /\ exit_status' = [exit_status EXCEPT ![j] = 0]
    /\ pc' = [pc EXCEPT ![j] = "done"]

\* sys.exit(status), or the interpreter ending on an uncaught exception
Exit(j, status) ==
    /\ exit_status' = [exit_status EXCEPT ![j] = status]
    /\ Goto(j, "done")

\* cleanup_current_work_dir() of a failed run, as far as shutil.rmtree
CleanupExit(j) ==
    /\ pc[j] = "cleanup_exit"
    /\ \E removed \in Outcomes(BOOLEAN, TRUE) :
          /\ fs' = remove_work_dir(fs, j, now, removed)
          /\ Record(j, Teardown(fs, j, removed))
    /\ Goto(j, "exit_logging")
    /\ UNCHANGED << now, Inputs, Config, t0, process_alive,
                    used_g_value, exit_status, fatal >>

\* The log line of cleanup_current_work_dir(); sys.exit(1)
FailureExit(j) ==
    /\ pc[j] = "exit_logging"
    /\ fs' = teardown_log(fs, j, now)
    /\ Exit(j, TeardownStatus(1, TeardownFailed(j)))
    /\ UNCHANGED << now, Inputs, Config, t0, process_alive,
                    used_g_value, fatal, trace >>

\* ------------------------------------------------------------------------
\* ArtifactParser, CostEstimator, ResultReporter
\* ------------------------------------------------------------------------

\* min_save_3mf as the parser finds it: "missing", or the archive.  A
\* pre-sliced project file is parsed in place.
min_save_3mf(f, j) ==
    IF is_presliced_3mf(j)
    THEN ArchiveFile(project_file[j].zip, project_file[j].usage,
                     project_file[j].gcode)
    ELSE IF output_3mf_path(j) \in DOMAIN f.files
         THEN f.files[output_3mf_path(j)]
         ELSE [kind |-> "missing"]

\* "if not os.path.exists(min_save_3mf)", then zipfile.ZipFile(...): the
\* fatal condition met, "none" when the archive is parsed.
ParseFatal(archive) ==
    IF archive.kind = "missing" THEN "missing_output"
    ELSE IF ~archive.zip THEN "bad_archive"
    ELSE "none"

\* What the parser adds to the trace: which archive it read, and what it
\* did not find there.
ParseEvents(j, archive) ==
    << IF is_presliced_3mf(j) THEN "parse_input" ELSE "parse_output" >>
    \o (IF archive.usage = "none" THEN <<"usage_missing">> ELSE << >>)
    \o (IF archive.duration THEN << >> ELSE <<"duration_missing">>)

Parse(j) ==
    /\ pc[j] = "parse"
    /\ fs' = log(fs, j, now)
    /\ LET archive == min_save_3mf(log(fs, j, now), j)
       IN  IF ParseFatal(archive) = "none"
           THEN /\ used_g_value' = [used_g_value EXCEPT ![j] = archive.usage]
                /\ Record(j, ParseEvents(j, archive))
                /\ Goto(j, "cost")
                /\ UNCHANGED fatal
           ELSE /\ fatal' = [fatal EXCEPT ![j] = ParseFatal(archive)]
                /\ Goto(j, "cleanup_exit")
                /\ UNCHANGED << used_g_value, trace >>
    /\ UNCHANGED << now, Inputs, Config, t0, process_alive, exit_status >>

\* Values of the environment variable FILAMENT_PRICE, and what float() makes
\* of a string: only a number converts.
FilamentPrices == {"number", "text"}

FloatRaises(text) == text = "text"

\* total_used_grams = float(used_g_value) if used_g_value else 0
\* CostRaises that converts used_g_value whatever it is: float(None) raises.
CostRaisesOnNone(filament_price, used_g) ==
    FloatRaises(filament_price) \/ used_g = "none" \/ FloatRaises(used_g)

CostRaises(filament_price, used_g) ==
    FloatRaises(filament_price) \/ (used_g # "none" /\ FloatRaises(used_g))

\* The time and cost computation.  A ValueError of float() is caught
\* nowhere: the interpreter prints the traceback and ends with status 1.
Cost(j) ==
    /\ pc[j] = "cost"
    /\ fs' = log(fs, j, now)
    /\ \E filament_price \in Outcomes(FilamentPrices, "number") :
          /\ Record(j, IF FloatRaises(filament_price)
                       THEN <<"price_error">> ELSE << >>)
          /\ IF CostRaises(filament_price, used_g_value[j])
             THEN /\ fatal' = [fatal EXCEPT ![j] = "exception"]
                  /\ Exit(j, 1)
             ELSE /\ Goto(j, "report")
                  /\ UNCHANGED << fatal, exit_status >>
    /\ UNCHANGED << now, Inputs, Config, t0, process_alive, used_g_value >>

\* print(RESULT_JSON:...); print(Total Cost: ...); log(Total Cost: ...)
\* ReportLines with the legacy line first.
ReportLinesLegacyFirst == <<"legacy", "result">>

ReportLines == <<"result", "legacy">>

Report(j) ==
    /\ pc[j] = "report"
    /\ fs' = log(fs, j, now)
    /\ Record(j, ReportLines)
    /\ Goto(j, "reported")
    /\ UNCHANGED << now, Inputs, Config, t0, process_alive, used_g_value,
                    exit_status, fatal >>

\* cleanup_current_work_dir() of a successful run, as far as shutil.rmtree
SuccessCleanup(j) ==
    /\ pc[j] = "reported"
    /\ \E removed \in Outcomes(BOOLEAN, TRUE) :
          /\ fs' = remove_work_dir(fs, j, now, removed)
          /\ Record(j, Teardown(fs, j, removed))
    /\ Goto(j, "end_logging")
    /\ UNCHANGED << now, Inputs, Config, t0, process_alive, used_g_value,
                    exit_status, fatal >>

\* The log line of cleanup_current_work_dir(); the END log line; the script
\* ends.
SuccessExit(j) ==
    /\ pc[j] = "end_logging"
    /\ fs' = log(teardown_log(fs, j, now), j, now)
    /\ Exit(j, TeardownStatus(0, TeardownFailed(j)))
    /\ UNCHANGED << now, Inputs, Config, t0, process_alive, used_g_value,
                    fatal, trace >>

\* ------------------------------------------------------------------------
\* The system
\* ------------------------------------------------------------------------

\* Time passes while a slicer runs, and before a Job is started once there
\* is something below WORK_BASE_DIR that can age; every other step of the
\* script is short beside these.
Tick ==
    /\ now < MaxClock
    /\ \/ \E j \in Jobs : pc[j] = "monitoring"
       \/ fs # EmptyFs /\ \E j \in Jobs : pc[j] = "start"
    /\ now' = now + 1
    /\ UNCHANGED << fs, pc, Inputs, Config, t0, process_alive, used_g_value,
                    exit_status, fatal, trace >>

JobNext(j) ==
    \/ Sweep(j)
    \/ Prepare(j)
    \/ Compose(j)
    \/ SkipSlicing(j)
    \/ Probes(j)
    \/ Launch(j)
    \/ SlicerWrite(j)
    \/ MonitorLog(j)
    \/ CommunicateReturns(j)
    \/ CommunicateTimeout(j)
    \/ CommunicateRaises(j)
    \/ Kill(j)
    \/ Drain(j)
    \/ PersistTimeout(j)
    \/ CleanupExit(j)
    \/ FailureExit(j)
    \/ Parse(j)
    \/ Cost(j)
    \/ Report(j)
    \/ SuccessCleanup(j)
    \/ SuccessExit(j)

Next == Tick \/ \E j \in Jobs : JobNext(j)

Spec == Init /\ [][Next]_vars

\* The steps of the main flow that come of themselves: every statement but
\* the return of process.communicate, which is the slicer's to give.  The
\* observer and the slicer owe no step.
MainFlow(j) ==
    \/ Sweep(j)
    \/ Prepare(j)
    \/ Compose(j)
    \/ SkipSlicing(j)
    \/ Probes(j)
    \/ Launch(j)
    \/ CommunicateTimeout(j)
    \/ Kill(j)
    \/ Drain(j)
    \/ PersistTimeout(j)
    \/ CleanupExit(j)
    \/ FailureExit(j)
    \/ Parse(j)
    \/ Cost(j)
    \/ Report(j)
    \/ SuccessCleanup(j)
    \/ SuccessExit(j)

\* The project files of the Job whose termination is followed: a model to
\* slice and a project that is sliced already.
LiveProjectFiles == { f \in ProjectFiles : f.ext = "stl" \/ (f.gcode /\ f.usage = "number") }

\* One Job alone, with the request identifier "a" and every fault of its
\* environment.
LiveInit ==
    /\ InitWith({1}, LeftoverRequestIds, LiveProjectFiles, EmptyFs)
    /\ NoEstimate

\* A Job whose statements are executed and whose clock advances: the
\* interpreter runs the main thread, and time passes while it waits.
LiveSpec ==
    /\ LiveInit
    /\ [][Next]_vars
    /\ WF_vars(Tick)
    /\ \A j \in Jobs : WF_vars(MainFlow(j))

\* ------------------------------------------------------------------------
\* The computations on their own
\* ------------------------------------------------------------------------
\* Text is a sequence of characters.  Money and hours are whole numbers of
\* a unit: Total_printing_hours counts 3600ths of an hour, the rates per hour
\* count thousandths, filament_cost counts hundredths, and the three costs
\* rounded to four places count ten-thousandths.

\* Values of the environment variable INFILL_DENSITY after strip(): unset,
\* "30", "30%", "%" and "5".
InfillDensities ==
    { << >>, <<"3", "0">>, <<"3", "0", "%">>, <<"%">>, <<"5">> }

\* str.endswith
endswith(text, c) == Len(text) > 0 /\ text[Len(text)] = c

\* sparse_infill_density with the sign appended in every case.
sparse_infill_density_appended(text) == text \o <<"%">>

\* density_value = INFILL_DENSITY if INFILL_DENSITY.endswith('%') else ...
sparse_infill_density(text) ==
    IF endswith(text, "%") THEN text ELSE text \o <<"%">>

\* The third line of the machine-instruction entry: present says whether
\* there is one (and it is not empty), label whether it holds "total
\* estimated time: ", tokens what follows the label, a number and a unit
\* letter each, white space between them.
Token(n, unit) == [n |-> n, unit |-> unit]

Line(tokens) == [present |-> TRUE, label |-> TRUE, tokens |-> tokens]

LongLine == Line(<<Token(1, "d"), Token(2, "h"), Token(3, "m"), Token(4, "s")>>)

PrintingTimeLines ==
    { [present |-> FALSE, label |-> FALSE, tokens |-> << >>],
      [present |-> TRUE,  label |-> FALSE, tokens |-> << >>],
      Line(<< >>),
      Line(<<Token(45, "s")>>),
      LongLine,
      Line(<<Token(2, "h"), Token(30, "m")>>),
      Line(<<Token(1, "m")>>),
      Line(<<Token(2, "h"), Token(1, "d")>>) }

\* Values of FILAMENT_PRICE and of the used_g attribute.
SpoolPrices == {12, 20}

UsedGrams == {0, 10, 25}

\* match.group(n) of the regular expression: the number of the token at
\* place i when it carries the unit, -1 (None) otherwise.
Group(tokens, i, unit) ==
    IF i <= Len(tokens) /\ tokens[i].unit = unit THEN tokens[i].n ELSE -1

\* int(match.group(n)) if match.group(n) else 0
Component(g) == IF g >= 0 THEN g ELSE 0

\* Hours that leaves the seconds out.
HoursWithoutSeconds(days, hours, minutes, seconds) ==
    days * 86400 + hours * 3600 + minutes * 60

\* days * 24 + hours + minutes / 60 + seconds / 3600, in 3600ths of an hour
Hours(days, hours, minutes, seconds) ==
    days * 86400 + hours * 3600 + minutes * 60 + seconds

\* The "Compute time" block: each optional group of the expression takes the
\* next token when it carries the group's unit.
ComputeTime(line) ==
    IF ~line.present \/ ~line.label THEN 0
    ELSE LET t  == line.tokens
             gd == Group(t, 1, "d")
             ih == IF gd >= 0 THEN 2 ELSE 1
             gh == Group(t, ih, "h")
             im == IF gh >= 0 THEN ih + 1 ELSE ih
             gm == Group(t, im, "m")
             is == IF gm >= 0 THEN im + 1 ELSE im
             gs == Group(t, is, "s")
         IN  Hours(Component(gd), Component(gh), Component(gm), Component(gs))

\* round(n / d, places) counted in units of the last place: n / d rounded to
\* the nearest whole number.  A value half way between two neighbours in
\* decimal is not half way as a binary floating-point number, and which
\* neighbour round() gives depends on the bits of the double: up says which.
Round(n, d, up) ==
    LET q == n \div d
        r == n % d
    IN  IF 2 * r < d THEN q
        ELSE IF 2 * r > d THEN q + 1
        ELSE IF up THEN q + 1 ELSE q

\* The figures of result_json that are rounded.
RoundedFields ==
    {"total_cost", "printing_hours", "filament_cost", "depreciation_cost",
     "electricity_cost"}

\* The sum of round(price / lifespan, 3) over the items, in thousandths.
total_dep_cost_per_hour == 237

power_consumption_watts == 105

\* 0.06, in hundredths.
electricity_rate_per_kwh == 6

\* round((power_watts / 1000) * electricity_rate_per_kwh, 3), in thousandths:
\* watts times hundredths are 100,000ths.
calculate_electricity_cost(power_watts, rate) ==
    Round(power_watts * rate, 100, FALSE)

electricity_cost_per_hour ==
    calculate_electricity_cost(power_consumption_watts, electricity_rate_per_kwh)

spool_weight == 1000

\* round((filament_price / spool_weight) * total_used_grams, 2), in hundredths
calculate_filament_cost(filament_price, weight, grams, up) ==
    Round(filament_price * grams * 100, weight, up)

\* The costs before rounding, in 3,600,000ths: hours (3600ths) times a rate
\* (thousandths).
total_depreciation_cost(hours) == hours * total_dep_cost_per_hour

total_electricity_cost(hours) == hours * electricity_cost_per_hour

total_cost(hours, filament_cost) ==
    total_depreciation_cost(hours) + total_electricity_cost(hours)
        + filament_cost * 36000

\* The figures of result_json: round(..., 4) of the three costs, round(..., 3)
\* of the hours, round(..., 2) of the grams and of the filament cost.
ResultJson(hours, filament_price, grams, up) ==
    LET filament_cost ==
            calculate_filament_cost(filament_price, spool_weight, grams,
                                    up["filament_cost"])
    IN  [total_cost        |-> Round(total_cost(hours, filament_cost), 360,
                                     up["total_cost"]),
         printing_hours    |-> Round(hours * 1000, 3600, up["printing_hours"]),
         filament_grams    |-> grams * 100,
         filament_cost     |-> filament_cost,
         depreciation_cost |-> Round(total_depreciation_cost(hours), 360,
                                     up["depreciation_cost"]),
         electricity_cost  |-> Round(total_electricity_cost(hours), 360,
                                     up["electricity_cost"])]

\* The lines of Metadata/slice_info.config.  Of a line is kept whether,
\* stripped, it starts with "<filament", and for each of used_g and used_m what
\* stands between the quotes: "absent" when the line has no such attribute,
\* "" when the quotes are empty.
MaxLines == 3

UsedG == {"absent", "", "1.5", "2.5"}

UsedM == {"absent", "0.5"}

SliceInfoLines == [filament : BOOLEAN, used_g : UsedG, used_m : UsedM]

SliceInfoContents ==
    UNION { [1..n -> SliceInfoLines] : n \in 0..MaxLines }

\* used_g_pattern.search(line), used_m_pattern.search(line): the pattern
\* ="([^"]+)" wants one character at least between the quotes.
Matches(attribute) == attribute \notin {"absent", ""}

\* used_g_value = None; used_m_value = None
NoUsage == [used_g_value |-> "None", used_m_value |-> "None"]

\* The body of the loop: a line that starts with "<filament" assigns the
\* group of each pattern that matches.
\* parse_line that keeps the first value found for each attribute.
parse_line_first(line, kept) ==
    IF ~line.filament THEN kept
    ELSE [used_g_value |-> IF Matches(line.used_g) /\ kept.used_g_value = "None"
                           THEN line.used_g ELSE kept.used_g_value,
          used_m_value |-> IF Matches(line.used_m) /\ kept.used_m_value = "None"
                           THEN line.used_m ELSE kept.used_m_value]

parse_line(line, kept) ==
    IF ~line.filament THEN kept
    ELSE [used_g_value |-> IF Matches(line.used_g)
                           THEN line.used_g ELSE kept.used_g_value,
          used_m_value |-> IF Matches(line.used_m)
                           THEN line.used_m ELSE kept.used_m_value]

\* for line in content.splitlines(): ...
RECURSIVE parse_slice_info(_, _)
parse_slice_info(lines, kept) ==
    IF lines = << >> THEN kept
    ELSE parse_slice_info(Tail(lines), parse_line(Head(lines), kept))

\* What the computations leave alone.
JobVars == << now, fs, pc, request_id, project_file, CLEANUP_AGE_SECONDS,
              slicer_timeout_secs, Config, t0, process_alive, used_g_value,
              exit_status, fatal, trace >>

\* Either the inputs of the estimate vary and the usage entry is empty, or
\* the usage entry varies and the estimate is that of the defaults.
EstimateInit ==
    /\ InitWith({}, [Jobs -> RequestIds], ProjectFiles, EmptyFs)
    /\ density_value = << >>
    /\ Total_printing_hours = -1
    /\ result_json = << >>
    /\ filament_usage = << >>
    /\ \/ /\ INFILL_DENSITY \in InfillDensities
          /\ printing_time_line \in PrintingTimeLines
          /\ FILAMENT_PRICE \in SpoolPrices
          /\ total_used_grams \in UsedGrams
          /\ content = << >>
       \/ /\ INFILL_DENSITY = << >>
          /\ printing_time_line = Line(<< >>)
          /\ FILAMENT_PRICE = 12
          /\ total_used_grams = 0
          /\ content \in SliceInfoContents

\* "if INFILL_DENSITY:" of the profile composition
NormaliseInfill ==
    /\ INFILL_DENSITY # << >>
    /\ density_value = << >>
    /\ density_value' = sparse_infill_density(INFILL_DENSITY)
    /\ UNCHANGED << JobVars, INFILL_DENSITY, printing_time_line,
                    Total_printing_hours, FILAMENT_PRICE, total_used_grams,
                    result_json, content, filament_usage >>

ParseTime ==
    /\ Total_printing_hours = -1
    /\ Total_printing_hours' = ComputeTime(printing_time_line)
    /\ UNCHANGED << JobVars, INFILL_DENSITY, density_value, printing_time_line,
                    FILAMENT_PRICE, total_used_grams, result_json, content,
                    filament_usage >>

Estimate ==
    /\ Total_printing_hours >= 0
    /\ result_json = << >>
    /\ \E up \in [RoundedFields -> BOOLEAN] :
          result_json' =
              << ResultJson(Total_printing_hours, FILAMENT_PRICE, total_used_grams, up) >>
    /\ UNCHANGED << JobVars, INFILL_DENSITY, density_value, printing_time_line,
                    Total_printing_hours, FILAMENT_PRICE, total_used_grams,
                    content, filament_usage >>

\* The loop over the lines of Metadata/slice_info.config
ParseUsage ==
    /\ filament_usage = << >>
    /\ filament_usage' = << parse_slice_info(content, NoUsage) >>
    /\ UNCHANGED << JobVars, INFILL_DENSITY, density_value, printing_time_line,
                    Total_printing_hours, FILAMENT_PRICE, total_used_grams,
                    result_json, content >>

EstimateNext == NormaliseInfill \/ ParseTime \/ Estimate \/ ParseUsage

EstimateSpec == EstimateInit /\ [][EstimateNext]_vars

\* ------------------------------------------------------------------------
\* Properties
\* ------------------------------------------------------------------------

\* e happened in Job j, and before the first f.
Before(j, e, f) == Did(j, e) /\ Did(j, f) /\ Pos(j, e) < Pos(j, f)

Count(j, e) == Cardinality({ i \in DOMAIN trace[j] : trace[j][i] = e })

Exited(j) == pc[j] = "done"

\* Job j has created its working directory and its process has not exited.
Active(j) == Did(j, "mkdir") /\ ~Exited(j)

Paths(f) == DOMAIN f.dirs \cup DOMAIN f.files

Inside(j, f) == { p \in Paths(f) : IsPrefix(request_work_dir(j), p) }

\* Job j was given a request identifier that names a directory of its own
\* right below WORK_BASE_DIR.
PlainId(j) == Len(request_id[j]) = 1

\* C1: every Job (given a plain request identifier) that created its working
\* directory has invoked teardown by the time its process has exited,
\* whichever branch ended the run.
C1_TeardownBeforeExit ==
    \A j \in Jobs :
        (PlainId(j) /\ Exited(j) /\ Did(j, "mkdir")) => Did(j, "teardown")

\* C2: once the process of a Job (given a plain request identifier) that
\* removed its working directory has exited, no other Job having run, the
\* directory does not exist.
C2_DirectoryAbsentAfterExit ==
    \A j \in Jobs :
        (PlainId(j) /\ Exited(j) /\ Did(j, "rmtree")
            /\ \A k \in Jobs \ {j} : trace[k] = << >>)
            => request_work_dir(j) \notin DOMAIN fs.dirs

\* C3: after the timeout the supervisor kills the process, then drains its
\* output (unless the kill raised), then writes the error artifact, then
\* tears the workspace down, then exits with status 1; teardown and exit
\* happen whether or not the kill or the drain failed.
C3_TimeoutSequence ==
    \A j \in Jobs :
        /\ (Did(j, "timeout") /\ Did(j, "drain")) => Before(j, "kill", "drain")
        /\ (Did(j, "timeout") /\ Did(j, "persist_error")) =>
              /\ Before(j, "timeout", "kill")
              /\ Before(j, "kill", "persist_error")
              /\ Did(j, "drain") \/ Did(j, "kill_failed")
              /\ Did(j, "drain") => Before(j, "drain", "persist_error")
        /\ (Did(j, "timeout") /\ Did(j, "teardown")) =>
              Before(j, "persist_error", "teardown")
        /\ (Did(j, "timeout") /\ Exited(j)) =>
              /\ Did(j, "teardown")
              /\ exit_status[j] = 1
              /\ ~Did(j, "result")

\* A Job whose drain after the kill failed has torn down and exited.
C3_Witness ==
    \E j \in Jobs : Did(j, "drain_failed") /\ Did(j, "teardown") /\ Exited(j)

FatalConditions ==
    {"missing_output", "bad_archive", "nonzero_exit", "timeout", "exception"}

\* C4: a process that has exited has status 0 exactly when no fatal
\* condition was met and status 1 exactly when one was.
C4_ExitStatus ==
    \A j \in Jobs :
        Exited(j) =>
            /\ exit_status[j] \in {0, 1}
            /\ exit_status[j] = 0 <=> fatal[j] = "none"
            /\ exit_status[j] = 1 <=> fatal[j] \in FatalConditions
            /\ exit_status[j] = 0 => Did(j, "result")

\* One Job has ended on an invalid archive with status 1.
C4_Witness ==
    \E j \in Jobs : Exited(j) /\ fatal[j] = "bad_archive" /\ exit_status[j] = 1

\* C5: the result line is written once in a run that exits with status 0,
\* before the legacy line and before teardown, and never in a run that exits
\* with status 1.
C5_ResultLine ==
    \A j \in Jobs :
        /\ Count(j, "result") <= 1
        /\ Did(j, "legacy") => Before(j, "result", "legacy")
        /\ (Did(j, "result") /\ Did(j, "teardown")) => Before(j, "result", "teardown")
        /\ (Exited(j) /\ exit_status[j] = 0) =>
              /\ Count(j, "result") = 1
              /\ Before(j, "result", "legacy")
              /\ Before(j, "result", "teardown")
        /\ (Exited(j) /\ exit_status[j] = 1) => ~Did(j, "result")

\* A Job has exited with status 0 after the result line.
C5_Witness ==
    \E j \in Jobs : Exited(j) /\ exit_status[j] = 0 /\ Count(j, "result") = 1

\* C6: no step of a Job creates or removes a path inside the working
\* directory of an active Job that was given another request identifier.
C6_WorkspaceIsolation ==
    [][\A j, k \in Jobs :
          (j # k /\ request_id[j] # request_id[k] /\ Active(k) /\ JobNext(j))
              => \A p \in Changed(fs, fs') : ~IsPrefix(request_work_dir(k), p)]_vars

\* C7: no two active Jobs have the same working directory.
C7_DirectoryNeverShared ==
    \A j, k \in Jobs :
        (j # k /\ Active(j) /\ Active(k)) => request_work_dir(j) # request_work_dir(k)

\* C8: the stale sweep of one Job, run with a positive age threshold,
\* removes nothing inside the working directory of another Job whose slicer
\* is running within its timeout (the two given distinct plain request
\* identifiers).
C8_SweepSparesActiveJobs ==
    [][\A j, k \in Jobs :
          (/\ j # k /\ PlainId(j) /\ PlainId(k) /\ request_id[j] # request_id[k]
           /\ CLEANUP_AGE_SECONDS[j] > 0
           /\ pc[k] = "monitoring" /\ now - t0[k] <= slicer_timeout_secs[k]
           /\ Sweep(j))
              => Inside(k, fs) \subseteq Paths(fs')]_vars

\* The project file of Job j is an archive that has both a filament-usage
\* entry and a per-plate machine-instruction entry.
SlicedArchive(j) ==
    /\ project_file[j].ext = "3mf"
    /\ project_file[j].zip
    /\ project_file[j].slice_info
    /\ project_file[j].gcode

\* C9: a Job given a sliced archive runs no probe, launches no slicer, writes
\* no derived profile, and parses the archive it was given.
C9_SlicedArchiveSkipsSlicer ==
    \A j \in Jobs :
        SlicedArchive(j) =>
            /\ ~Did(j, "probes")
            /\ ~Did(j, "launch")
            /\ ~Did(j, "profile_written")
            /\ modified_process_path(j) \notin DOMAIN fs.files
            /\ ~Did(j, "parse_output")
            /\ pc[j] \in {"cost", "report", "reported"} => Did(j, "parse_input")
            /\ (Exited(j) /\ exit_status[j] = 0) => Did(j, "parse_input")

\* A Job given a sliced archive has parsed it and exited with status 0.
C9_Witness ==
    \E j \in Jobs :
        SlicedArchive(j) /\ Exited(j) /\ exit_status[j] = 0 /\ Did(j, "parse_input")

\* The three support keys as this system sets them.
SupportForced(data) ==
    /\ data["enable_support"] = "1"
    /\ data["support_type"] = SUPPORT_TYPE
    /\ data["support_threshold_angle"] \in ThresholdAngles

\* C10 as stated: whenever the slicer is launched, it is given the derived
\* profile with support forced on.
C10_SupportAlwaysForced ==
    \A j \in Jobs :
        Did(j, "launch") =>
            actual_process_config[j] = "modified" /\ SupportForced(process_data[j])

\* C10 as amended: whenever the slicer is launched after the derived profile
\* was composed without failure, it is given the derived profile with the
\* three support keys set; after a failure it is given the base profile.
C10_SupportForcedUnlessFallback ==
    \A j \in Jobs :
        Did(j, "launch") =>
            IF Did(j, "compose_failed")
            THEN actual_process_config[j] = "base" /\ ~Did(j, "profile_written")
            ELSE /\ actual_process_config[j] = "modified"
                 /\ Did(j, "profile_written")
                 /\ SupportForced(process_data[j])

\* A slicer has been launched with the derived profile.
C10_Witness ==
    \E j \in Jobs :
        Did(j, "launch") /\ actual_process_config[j] = "modified"
            /\ SupportForced(process_data[j])

\* C11: a failure while the derived profile is composed is not fatal: the Job
\* goes on to the validations and the slicer, the slicer is given the base
\* profile, and a profile left partly written is never the one loaded.
C11_FallbackToBaseProfile ==
    \A j \in Jobs :
        /\ Did(j, "compose_failed") =>
              /\ actual_process_config[j] = "base"
              /\ ~Did(j, "profile_written")
              /\ pc[j] # "prepared"
              /\ pc[j] \in {"composed", "probed", "monitoring"} => fatal[j] = "none"
              /\ Exited(j) => Did(j, "probes") /\ Did(j, "popen")
        /\ (Did(j, "compose_failed") /\ Did(j, "popen")) =>
              slice_command(j).load_settings = "base"
        /\ (/\ pc[j] # "absent"
            /\ modified_process_path(j) \in DOMAIN fs.files
            /\ fs.files[modified_process_path(j)].kind = "partial")
              => slice_command(j).load_settings = "base"

\* A slicer runs on the base profile beside a partly written derived profile.
C11_Witness ==
    \E j \in Jobs :
        /\ Did(j, "compose_failed") /\ Did(j, "launch") /\ pc[j] = "monitoring"
        /\ modified_process_path(j) \in DOMAIN fs.files
        /\ fs.files[modified_process_path(j)].kind = "partial"
        /\ slice_command(j).load_settings = "base"

\* C14: after a sweep in which no entry failed, no immediate child directory
\* older than the age is left, and a second sweep at the same time, nothing
\* else having happened, leaves the tree as it is.
C14_SweepIdempotent ==
    [][\A j \in Jobs :
          (/\ Sweep(j)
           /\ "entry_failed" \notin Range(trace'[j])
           /\ "cleanup_error_logged" \notin Range(trace'[j]))
              => /\ StaleDirs(fs', j, now) = {}
                 /\ cleanup_old_work_dirs(fs', j, now, TRUE,
                                          AllRemoved(StaleDirs(fs', j, now))) = fs']_vars

\* A sweep has removed stale directories, none of them failing.
C14_Witness ==
    \E j \in Jobs :
        /\ pc[j] = "swept" /\ Did(j, "cleanup_logged") /\ ~Did(j, "entry_failed")
        /\ <<"b">> \notin DOMAIN fs.dirs

\* C16: a Job sweeps once, as the first thing it does and before it creates
\* its working directory; what the sweep itself logs, it logs after the
\* removals, so the line is there when the sweep is over.
C16_SweepOnceBeforeDirectory ==
    /\ [](\A j \in Jobs :
            /\ Count(j, "sweep") <= 1
            /\ pc[j] = "start" => trace[j] = << >>
            /\ pc[j] \notin {"absent", "start"} => Count(j, "sweep") = 1
            /\ trace[j] # << >> => trace[j][1] = "sweep"
            /\ Did(j, "mkdir") => Before(j, "sweep", "mkdir"))
    /\ [][\A j \in Jobs :
            (Sweep(j) /\ "cleanup_logged" \in Range(trace'[j]))
                => debug_log_path(j) \in DOMAIN fs'.files]_vars

\* A Job has created its working directory after its sweep removed stale
\* directories.
C16_Witness ==
    \E j \in Jobs : Did(j, "cleanup_logged") /\ Did(j, "mkdir") /\ Count(j, "sweep") = 1

\* C17: when an entry fails during the sweep, the error is logged, every
\* stale directory that did not fail is removed, and the Job goes on to
\* create its working directory.
C17_EntryFailureLogged ==
    [][\A j \in Jobs :
          (Sweep(j) /\ "entry_failed" \in Range(trace'[j]))
              => /\ "cleanup_error_logged" \in Range(trace'[j])
                 /\ Cardinality(StaleDirs(fs, j, now) \cap StaleDirs(fs', j, now))
                        <= Cardinality({ i \in DOMAIN trace'[j] :
                                            trace'[j][i] = "entry_failed" })
                 /\ pc'[j] = "swept"]_vars

\* C18: the two validations come before the slicer is started; whatever
\* they found, the main flow goes on to start the slicer, and they leave the
\* command line as it was.
C18_ProbesNeverGate ==
    /\ [](\A j \in Jobs :
            /\ Did(j, "popen") => Before(j, "probes", "popen")
            /\ Did(j, "probes") => pc[j] # "composed"
            /\ (Did(j, "probes") /\ pc[j] # "probed") => Did(j, "popen"))
    /\ [][\A j \in Jobs :
            Probes(j) => /\ slice_command(j)' = slice_command(j)
                         /\ pc'[j] = "probed"
                         /\ fatal'[j] = "none"]_vars

\* A slicer was started after both validations failed.
C18_Witness ==
    \E j \in Jobs :
        Did(j, "xvfb_failed") /\ Did(j, "glxinfo_failed") /\ Did(j, "launch")

C20_NonZeroExit ==
    /\ [](\A j \in Jobs :
            fatal[j] = "nonzero_exit" =>
                /\ Did(j, "persist_error")
                /\ ~Did(j, "persist_output") /\ ~Did(j, "timeout")
                /\ ~Did(j, "parse_input") /\ ~Did(j, "parse_output")
                /\ ~Did(j, "result") /\ ~Did(j, "legacy")
                /\ pc[j] \in {"cleanup_exit", "exit_logging", "done"}
                /\ Did(j, "teardown") => Before(j, "persist_error", "teardown")
                /\ Exited(j) => Did(j, "teardown") /\ exit_status[j] = 1)
    /\ [][\A j \in Jobs :
            (CommunicateReturns(j) /\ fatal'[j] = "nonzero_exit")
                => /\ cli_error_path(j) \in DOMAIN fs'.files
                   /\ cli_output_path(j) \in DOMAIN fs'.files
                         => cli_output_path(j) \in DOMAIN fs.files]_vars

\* A Job whose slicer exited non-zero has torn down and exited.
C20_Witness ==
    \E j \in Jobs :
        fatal[j] = "nonzero_exit" /\ Did(j, "teardown") /\ Exited(j)

\* n / d lies half way between two whole numbers.
HalfWay(n, d) == 2 * (n % d) = d

\* C12: in the result emitted for a duration none of whose costs lies half
\* way between two neighbours, total_cost is the sum of depreciation_cost,
\* electricity_cost and filament_cost.
C12_CostAdditive ==
    (/\ result_json # << >>
     /\ ~HalfWay(total_depreciation_cost(Total_printing_hours), 360)
     /\ ~HalfWay(total_electricity_cost(Total_printing_hours), 360)
     /\ ~HalfWay(total_cost(Total_printing_hours, result_json[1].filament_cost), 360)) =>
        result_json[1].total_cost =
            result_json[1].depreciation_cost + result_json[1].electricity_cost
                + result_json[1].filament_cost * 100

\* The units of a duration in the order the header has them, and the
\* 3600ths of an hour each is worth.
UnitRank(unit) ==
    CASE unit = "d" -> 1 [] unit = "h" -> 2 [] unit = "m" -> 3 [] unit = "s" -> 4

UnitWorth(unit) ==
    CASE unit = "d" -> 86400 [] unit = "h" -> 3600 [] unit = "m" -> 60 [] unit = "s" -> 1

InOrder(tokens) ==
    \A i \in 1..(Len(tokens) - 1) : UnitRank(tokens[i].unit) < UnitRank(tokens[i + 1].unit)

RECURSIVE Worth(_)
Worth(tokens) ==
    IF tokens = << >> THEN 0
    ELSE tokens[1].n * UnitWorth(tokens[1].unit) + Worth(Tail(tokens))

\* What C13 says of every header but "1d 2h 3m 4s": "45s" is 0.0125 hours,
\* an empty or missing field 0 hours, and a header with its components in
\* order days * 24 + hours + minutes / 60 + seconds / 3600.
DurationParsed ==
    Total_printing_hours >= 0 =>
        /\ printing_time_line = Line(<<Token(45, "s")>>)
              => Total_printing_hours * 10000 = 125 * 3600
        /\ (~printing_time_line.present \/ ~printing_time_line.label
                \/ printing_time_line.tokens = << >>)
              => Total_printing_hours = 0
        /\ (printing_time_line.present /\ printing_time_line.label
                /\ InOrder(printing_time_line.tokens))
              => Total_printing_hours = Worth(printing_time_line.tokens)

\* C13 as stated: besides, the header "1d 2h 3m 4s" is parsed to exactly
\* 26.05 hours.
C13_LongLineIs2605 ==
    /\ DurationParsed
    /\ (Total_printing_hours >= 0 /\ printing_time_line = LongLine)
          => Total_printing_hours * 100 = 2605 * 3600

\* C13 as amended: besides, the header "1d 2h 3m 4s" is parsed to 26 hours
\* and 184 seconds (26.0511... hours).
C13_LongLineIs26Hours184Seconds ==
    /\ DurationParsed
    /\ (Total_printing_hours >= 0 /\ printing_time_line = LongLine)
          => Total_printing_hours = 26 * 3600 + 184

\* The header "1d 2h 3m 4s" has been parsed.
C13_Witness ==
    printing_time_line = LongLine /\ Total_printing_hours = 93784

\* C15: the value stored ends in a percent sign; it is the override itself
\* when that ends in one, and the override with one sign appended when it
\* does not ("30" gives "30%", "30%" gives "30%"); normalising the value
\* stored gives the value stored.
C15_InfillNormalised ==
    density_value # << >> =>
        /\ endswith(density_value, "%")
        /\ SubSeq(density_value, 1, Len(INFILL_DENSITY)) = INFILL_DENSITY
        /\ Len(density_value) =
              Len(INFILL_DENSITY) + (IF endswith(INFILL_DENSITY, "%") THEN 0 ELSE 1)
        /\ INFILL_DENSITY = <<"3", "0">> => density_value = <<"3", "0", "%">>
        /\ INFILL_DENSITY = <<"3", "0", "%">> => density_value = <<"3", "0", "%">>
        /\ sparse_infill_density(density_value) = density_value

\* The override "30%" has been stored as it is.
C15_Witness ==
    INFILL_DENSITY = <<"3", "0", "%">> /\ density_value = <<"3", "0", "%">>

C22_EveryJobTerminates ==
    \A j \in Jobs :
        pc[j] # "absent" ~> (Exited(j) /\ exit_status[j] \in {0, 1})

\* The slicer never exited and the drain after the kill did not complete:
\* the run has ended with status 1.
C22_Witness ==
    \E j \in Jobs :
        /\ Exited(j)
        /\ exit_status[j] = 1
        /\ fatal[j] = "timeout"
        /\ Did(j, "kill")
        /\ Did(j, "drain_failed")

Carrying(attribute) ==
    { i \in DOMAIN content :
        content[i].filament /\ Matches(content[i][attribute]) }

\* The value of the attribute on the last of those lines, "None" when there
\* is none.
LastCarried(attribute) ==
    IF Carrying(attribute) = {} THEN "None"
    ELSE content[CHOOSE i \in Carrying(attribute) :
                    \A k \in Carrying(attribute) : k <= i][attribute]

\* C24: of several filament lines, the value kept for used_g is that of the
\* last line that carries used_g, and the value kept for used_m that of the
\* last line that carries used_m, each on its own; a line that does not
\* start with "<filament" contributes nothing, whatever it carries.
C24_LastFilamentLineWins ==
    filament_usage # << >> =>
        /\ filament_usage[1].used_g_value = LastCarried("used_g")
        /\ filament_usage[1].used_m_value = LastCarried("used_m")

\* Two filament lines carry used_g, the first of them used_m as well, and a
\* line that is no filament line follows with another used_g: the mass of
\* the second line and the length of the first are kept.
C24_Witness ==
    /\ Len(content) = 3
    /\ content[1] = [filament |-> TRUE, used_g |-> "1.5", used_m |-> "0.5"]
    /\ content[2] = [filament |-> TRUE, used_g |-> "2.5", used_m |-> "absent"]
    /\ content[3] = [filament |-> FALSE, used_g |-> "1.5", used_m |-> "absent"]
    /\ filament_usage = << [used_g_value |-> "2.5", used_m_value |-> "0.5"] >>

\* C25: the electricity cost emitted is that of printing hours * (105 / 1000)
\* * 0.06, that is of 0.0063 per printing hour, rounded to four places,
\* whatever the duration.  (Hours in 3600ths times watts times hundredths
\* are 360,000,000ths; 36,000 of them make a ten-thousandth.)
C25_ElectricityCost ==
    result_json # << >> =>
        \E up \in BOOLEAN :
            result_json[1].electricity_cost =
                Round(Total_printing_hours * power_consumption_watts
                        * electricity_rate_per_kwh, 36000, up)

\* C26: once the main flow has cleared process_alive and has begun to tear
\* the working directory down, the observer writes nothing: no step of
\* monitor_output creates the directory or its debug.log again.  Stated of
\* a Job with a directory of its own right below WORK_BASE_DIR.
C26_ObserverSilentAfterTeardown ==
    [][\A j \in Jobs :
          (PlainId(j) /\ ~process_alive[j] /\ Did(j, "teardown"))
              => ~MonitorLog(j)]_vars

====
